---------------------------- MODULE Spec2Model ----------------------------
(***************************************************************************)
(* Study Buddy (AI Study Assistant): the question/answer controller        *)
(* (App.tsx), the question form (QuestionInput.tsx), the error banner      *)
(* (ErrorDisplay.tsx), the intent detector (utils/intentDetection.ts) and   *)
(* the two Response Service implementations (KiroAIService in              *)
(* aiService.ts, DemoAIService in demoAIService.ts).                        *)
(*                                                                         *)
(* A text is a sequence of one-character strings.  An event handler runs   *)
(* to its first await in one step (JavaScript is run-to-completion and     *)
(* React commits the state updates of a discrete event before the next     *)
(* event is dispatched); every resumption of an awaiting async function    *)
(* (timer, fetch settlement, body arrival) is one step that runs through   *)
(* the chain of microtasks it triggers, up to the next timer or network    *)
(* await.                                                                  *)
(***************************************************************************)
EXTENDS Naturals, Sequences, FiniteSets

(***************************************************************************)
(* Characters and texts                                                    *)
(***************************************************************************)

\* The block character Block stands for a run of BlockLen letters "j" (a
\* letter no intent pattern contains), so that a question longer than the
\* service's length limit is a short sequence.
BlockLen == 5000

Block == "j...j"

WhiteSpace == {" ", "\t"}

Digits == {"0", "1", "2", "3", "4", "5", "6", "7", "8", "9"}

LowerCase ==
  <<"a", "b", "c", "d", "e", "f", "g", "h", "i", "j", "k", "l", "m",
    "n", "o", "p", "q", "r", "s", "t", "u", "v", "w", "x", "y", "z">>

UpperCase ==
  <<"A", "B", "C", "D", "E", "F", "G", "H", "I", "J", "K", "L", "M",
    "N", "O", "P", "Q", "R", "S", "T", "U", "V", "W", "X", "Y", "Z">>

Letters == {LowerCase[i] : i \in 1..26}

\* \w of a JavaScript regular expression, after case folding
WordChars == Letters \cup Digits \cup {"_", Block}

\* case folding of the i flag
Lower(c) ==
  IF \E i \in 1..26 : UpperCase[i] = c
  THEN LowerCase[CHOOSE i \in 1..26 : UpperCase[i] = c]
  ELSE c

\* String.prototype.length
RECURSIVE TextLength(_)
TextLength(s) ==
  IF s = <<>> THEN 0
  ELSE (IF Head(s) = Block THEN BlockLen ELSE 1) + TextLength(Tail(s))

\* String.prototype.trim
RECURSIVE TrimStart(_)
TrimStart(s) ==
  IF s # <<>> /\ Head(s) \in WhiteSpace THEN TrimStart(Tail(s)) ELSE s

RECURSIVE TrimEnd(_)
TrimEnd(s) ==
  IF s # <<>> /\ s[Len(s)] \in WhiteSpace
  THEN TrimEnd(SubSeq(s, 1, Len(s) - 1))
  ELSE s

Trim(s) == TrimEnd(TrimStart(s))

(***************************************************************************)
(* Regular expressions of the intent detector.  A pattern is a sequence of *)
(* alternatives in priority order (the optional group of "give me a        *)
(* [short] summary" gives two); an alternative is a sequence of elements   *)
(* [cls, q]: a character class and a quantifier "1", "?", "+" or "*".      *)
(***************************************************************************)

One(c) == [cls |-> {c}, q |-> "1"]

Opt(c) == [cls |-> {c}, q |-> "?"]

Lit(w) == [i \in 1..Len(w) |-> One(w[i])]

Spaces == <<[cls |-> WhiteSpace, q |-> "+"]>>

DigitRun == <<[cls |-> Digits, q |-> "+"]>>

WordRun == <<[cls |-> WordChars, q |-> "+"]>>

\* the suffix [,:]?\s* of every cleaning expression
Suffix == <<[cls |-> {",", ":"}, q |-> "?"], [cls |-> WhiteSpace, q |-> "*"]>>

\* the end of the maximal run of characters of cls that starts at s[i]
RECURSIVE RunEnd(_, _, _)
RunEnd(s, i, cls) ==
  IF i <= Len(s) /\ Lower(s[i]) \in cls THEN RunEnd(s, i + 1, cls) ELSE i

Max(S) == CHOOSE x \in S : \A y \in S : y <= x

\* Backtracking match of the elements alt[k..] at s[i..]: the index after
\* the match the engine finds first (greedy quantifiers), 0 if none.
RECURSIVE MatchFrom(_, _, _, _)
MatchFrom(alt, k, s, i) ==
  IF k > Len(alt) THEN i
  ELSE LET e == alt[k]
           hit == i <= Len(s) /\ Lower(s[i]) \in e.cls
           lo == IF e.q = "+" THEN i + 1 ELSE i
           ends == {j \in lo..RunEnd(s, i, e.cls) : MatchFrom(alt, k + 1, s, j) # 0}
       IN CASE e.q = "1" -> IF hit THEN MatchFrom(alt, k + 1, s, i + 1) ELSE 0
            [] e.q = "?" -> IF hit /\ MatchFrom(alt, k + 1, s, i + 1) # 0
                            THEN MatchFrom(alt, k + 1, s, i + 1)
                            ELSE MatchFrom(alt, k + 1, s, i)
            [] OTHER -> IF ends = {} THEN 0
                        ELSE MatchFrom(alt, k + 1, s, Max(ends))

\* the match of a pattern at position i: its first alternative that matches
RECURSIVE MatchAlt(_, _, _, _)
MatchAlt(pat, a, s, i) ==
  IF a > Len(pat) THEN 0
  ELSE IF MatchFrom(pat[a], 1, s, i) # 0 THEN MatchFrom(pat[a], 1, s, i)
  ELSE MatchAlt(pat, a + 1, s, i)

MatchAt(pat, s, i) == MatchAlt(pat, 1, s, i)

\* RegExp.prototype.test
RegexTest(pat, s) == \E i \in 1..(Len(s) + 1) : MatchAt(pat, s, i) # 0

\* String.prototype.replace(/pat/g, ''): every match, left to right,
\* is removed (all the patterns match at least one character)
RECURSIVE ReplaceFrom(_, _, _)
ReplaceFrom(pat, s, i) ==
  IF i > Len(s) THEN <<>>
  ELSE IF MatchAt(pat, s, i) # 0 THEN ReplaceFrom(pat, s, MatchAt(pat, s, i))
  ELSE <<s[i]>> \o ReplaceFrom(pat, s, i + 1)

ReplaceAll(pat, s) == ReplaceFrom(pat, s, 1)

(***************************************************************************)
(* utils/intentDetection.ts                                                *)
(***************************************************************************)

W_explain == Lit(<<"e", "x", "p", "l", "a", "i", "n">>)

W_like == Lit(<<"l", "i", "k", "e">>)

W_this == Lit(<<"t", "h", "i", "s">>)

W_simply == Lit(<<"s", "i", "m", "p", "l", "y">>)

W_simple == Lit(<<"s", "i", "m", "p", "l", "e">>)

W_explanation == Lit(<<"e", "x", "p", "l", "a", "n", "a", "t", "i", "o", "n">>)

W_eli == Lit(<<"e", "l", "i">>)

W_summarize == Lit(<<"s", "u", "m", "m", "a", "r", "i", "z", "e">>)

W_give == Lit(<<"g", "i", "v", "e">>)

W_me == Lit(<<"m", "e">>)

W_short == Lit(<<"s", "h", "o", "r", "t">>)

W_summary == Lit(<<"s", "u", "m", "m", "a", "r", "y">>)

W_brief == Lit(<<"b", "r", "i", "e", "f">>)

W_quick == Lit(<<"q", "u", "i", "c", "k">>)

W_sum == Lit(<<"s", "u", "m">>)

W_it == Lit(<<"i", "t">>)

W_up == Lit(<<"u", "p">>)

\* i'?m
W_im == <<One("i"), Opt("'"), One("m")>>

\* tl;?dr
W_tldr == <<One("t"), One("l"), Opt(";"), One("d"), One("r")>>

\* explain\s+like\s+i'?m\s+
ExplainLikeIm == W_explain \o Spaces \o W_like \o Spaces \o W_im \o Spaces

\* give\s+me\s+a\s+
GiveMeA == W_give \o Spaces \o W_me \o Spaces \o <<One("a")>> \o Spaces

\* The regular expressions of EXPLAIN_SIMPLE_PATTERNS, in declaration order
EXPLAIN_SIMPLE_PATTERNS ==
  << <<ExplainLikeIm \o DigitRun>>,
     <<ExplainLikeIm \o <<One("a")>> \o Spaces \o WordRun>>,
     <<W_explain \o Spaces \o W_this \o Spaces \o W_simply>>,
     <<W_explain \o Spaces \o W_simply>>,
     <<W_simple \o Spaces \o W_explanation>>,
     <<W_eli \o <<One("5")>> >>,
     <<W_eli \o DigitRun>> >>

\* The regular expressions of SUMMARIZE_PATTERNS, in declaration order
SUMMARIZE_PATTERNS ==
  << <<W_summarize \o Spaces \o W_this>>,
     <<GiveMeA \o W_short \o Spaces \o W_summary, GiveMeA \o W_summary>>,
     <<W_tldr>>,
     <<W_brief \o Spaces \o W_summary>>,
     <<W_quick \o Spaces \o W_summary>>,
     <<W_sum \o Spaces \o W_it \o Spaces \o W_up>> >>

\* OptionalFeatureType, and NoMode for null / undefined
NoMode == "none"

Modes == {"explain-simple", "summarize", "generate-quiz"}

\* values that are no strings: undefined or null, and a number
Undefined == <<"undefined">>

NotAString == <<"number">>

\* mutant: the summarize patterns are checked first
detectIntent_SummarizeFirst(text) ==
  IF text = <<>> \/ text \in {Undefined, NotAString} THEN NoMode
  ELSE LET trimmedText == Trim(text)
       IN IF \E k \in 1..Len(SUMMARIZE_PATTERNS) :
                RegexTest(SUMMARIZE_PATTERNS[k], trimmedText)
          THEN "summarize"
          ELSE IF \E k \in 1..Len(EXPLAIN_SIMPLE_PATTERNS) :
                    RegexTest(EXPLAIN_SIMPLE_PATTERNS[k], trimmedText)
          THEN "explain-simple"
          ELSE NoMode

\* detectIntent(text): the empty text, undefined, null and a value that is
\* no string give null
detectIntent(text) ==
  IF text = <<>> \/ text \in {Undefined, NotAString} THEN NoMode
  ELSE LET trimmedText == Trim(text)
       IN IF \E k \in 1..Len(EXPLAIN_SIMPLE_PATTERNS) :
                RegexTest(EXPLAIN_SIMPLE_PATTERNS[k], trimmedText)
          THEN "explain-simple"
          ELSE IF \E k \in 1..Len(SUMMARIZE_PATTERNS) :
                    RegexTest(SUMMARIZE_PATTERNS[k], trimmedText)
          THEN "summarize"
          ELSE NoMode

\* a cleaning expression: the detection expression followed by [,:]?\s*
WithSuffix(pat) == [a \in 1..Len(pat) |-> pat[a] \o Suffix]

\* the chain of .replace(...) calls over the patterns pats[k..]
RECURSIVE ReplaceChain(_, _, _)
ReplaceChain(pats, k, s) ==
  IF k > Len(pats) THEN s
  ELSE ReplaceChain(pats, k + 1, ReplaceAll(WithSuffix(pats[k]), s))

\* cleanQuestionText(text, detectedIntent)
cleanQuestionText(text, detectedIntent) ==
  IF detectedIntent = NoMode \/ text = <<>> \/ text = Undefined THEN text
  ELSE LET cleaned == Trim(text)
           c1 == IF detectedIntent = "explain-simple"
                 THEN ReplaceChain(EXPLAIN_SIMPLE_PATTERNS, 1, cleaned)
                 ELSE cleaned
           c2 == IF detectedIntent = "summarize"
                 THEN ReplaceChain(SUMMARIZE_PATTERNS, 1, c1)
                 ELSE c1
       IN Trim(c2)

(***************************************************************************)
(* Bounds and inputs                                                       *)
(***************************************************************************)

\* generateResponse calls in one behaviour
MaxCalls == 2

\* fetches left pending by their timeout at one time
MaxDangling == 1

\* the texts the user types
Texts ==
  { <<" ">>,
    <<"q">>,
    <<"t", "l", "d", "r">>,
    <<"T", "L", "D", "R", ":", " ", "q">>,
    <<Block, "q">> }

\* the texts the backend answers with
Answers == { <<" ", "A", "1", " ">> }

\* the HTTP statuses the backend answers with
Statuses == {200, 404, 429, 500, 503}

\* what a rejected fetch() or response.json() is rejected with: a TypeError
\* whose message contains 'fetch', another TypeError, another Error
Rejections == {"TypeError:fetch", "TypeError", "Error"}

\* what response.json() settles with: parsed data with a content field,
\* the data null, or a rejection
JsonOutcomes ==
  {[k |-> "data", content |-> c] : c \in Answers \cup {<<>>, Undefined, NotAString}}
  \cup {[k |-> "null", content |-> Undefined]}
  \cup {[k |-> r, content |-> Undefined] : r \in Rejections}

(***************************************************************************)
(* State                                                                   *)
(***************************************************************************)

VARIABLES
  responses,        \* App: useState<Response[]>
  isLoading,        \* App: useState<boolean>
  error,            \* App: useState<AppError | null>
  lastQuestion,     \* App: useState<{question, mode} | null>
  inputValue,       \* QuestionInput: useState<string>
  validationError,  \* QuestionInput: useState<string | null>
  selectedMode,     \* QuestionInput: useState<OptionalFeatureType | null>
  DEMO_MODE,        \* aiService.ts: which implementation aiService is
  callCount,        \* MockAIService: the calls of its generateResponse
  calls,            \* the generateResponse calls made, in order
  requests,         \* the makeRequest invocations with a pending fetch, in order
  lastOp            \* history, the last step: op is "submit" (with the
                    \* question and mode passed) or "retry" if it ran that
                    \* operation of the controller, "call" if the service
                    \* was called directly, "discard" if a fetch settled
                    \* after its timeout, what settled the attempt if a
                    \* service step did, else "none"

app == <<responses, isLoading, error, lastQuestion>>

form == <<inputValue, validationError, selectedMode>>

vars == <<responses, isLoading, error, lastQuestion, inputValue,
          validationError, selectedMode, DEMO_MODE, callCount, calls, requests,
          lastOp>>

\* null
Null == [null |-> TRUE]

NoValidationError == "null"

Op(op) == [op |-> op, question |-> <<>>, mode |-> "none"]

Submitted(question, mode) == [op |-> "submit", question |-> question, mode |-> mode]

\* history of a step of the service: what the attempt of call c was settled
\* by. op is "response" (outcome: the status), "rejection" (outcome: what
\* fetch rejected with), "timeout" or "json" (outcome: what response.json()
\* settled with)
Settled(op, c, outcome) ==
  [op |-> op, question |-> <<>>, mode |-> "none", call |-> c, outcome |-> outcome]

(***************************************************************************)
(* services/aiService.ts                                                   *)
(***************************************************************************)

\* AI_SERVICE_CONFIG
timeout == 5000

maxRetries == 3

retryDelay == 1000

\* the length limit of generateResponse
MaxQuestionLength == 5000

\* new AIServiceError(message, type, retryable)
AIServiceError(message, type, retryable) ==
  [type |-> type, message |-> message, retryable |-> retryable]

\* the error createTimeoutPromise rejects with
createTimeoutPromise == AIServiceError("Request timeout", "timeout", TRUE)

StatusMessage(status) ==
  CASE status = 404 -> "AI service responded with status 404"
    [] status = 429 -> "AI service responded with status 429"
    [] status = 500 -> "AI service responded with status 500"
    [] status = 503 -> "AI service responded with status 503"
    [] OTHER -> "AI service responded with status"

\* mutant: the switch has no case for generate-quiz
formatPrompt_NoQuiz(question, mode) ==
  LET basePrompt == Trim(question)
  IN CASE mode = "explain-simple" ->
            <<"Please explain this in simple terms that a 12-year-old could understand: ">>
              \o basePrompt
       [] mode = "summarize" ->
            <<"Please provide a concise summary of this topic: ">> \o basePrompt
       [] OTHER -> basePrompt

\* formatPrompt(question, mode): the instruction template is one symbol
formatPrompt(question, mode) ==
  LET basePrompt == Trim(question)
  IN CASE mode = "explain-simple" ->
            <<"Please explain this in simple terms that a 12-year-old could understand: ">>
              \o basePrompt
       [] mode = "summarize" ->
            <<"Please provide a concise summary of this topic: ">> \o basePrompt
       [] mode = "generate-quiz" ->
            <<"Please generate 5 quiz questions about this topic: ">> \o basePrompt
       [] OTHER -> basePrompt

\* response.ok
ResponseOk(status) == status >= 200 /\ status <= 299

\* mutant: every status from 400 on is retryable
StatusError_ClientRetryable(status) ==
  AIServiceError(StatusMessage(status), "api", status >= 400)

\* makeRequest, the throw for a response that is not ok
StatusError(status) == AIServiceError(StatusMessage(status), "api", status >= 500)

\* mutant: the error for an unexpected rejection is retryable
ClassifyRejection_Retryable(r) ==
  IF r = "TypeError:fetch"
  THEN AIServiceError("Network error: Unable to connect to AI service", "network", TRUE)
  ELSE AIServiceError("Unexpected error", "api", TRUE)

\* makeRequest, the catch block: the error a rejection that is no
\* AIServiceError is rethrown as
ClassifyRejection(r) ==
  IF r = "TypeError:fetch"
  THEN AIServiceError("Network error: Unable to connect to AI service", "network", TRUE)
  ELSE AIServiceError("Unexpected error", "api", FALSE)

\* mutant: the error for a malformed body is retryable
BodyError_Retryable(out) ==
  CASE out.k = "null" -> ClassifyRejection("TypeError")
    [] out.k \in Rejections -> ClassifyRejection(out.k)
    [] out.content \in {<<>>, Undefined, NotAString} ->
         AIServiceError("Invalid response format from AI service", "api", TRUE)
    [] OTHER -> Null

\* makeRequest after response.json(): the error thrown, Null if none.
\* Reading data.content of null throws a TypeError.
BodyError(out) ==
  CASE out.k = "null" -> ClassifyRejection("TypeError")
    [] out.k \in Rejections -> ClassifyRejection(out.k)
    [] out.content \in {<<>>, Undefined, NotAString} ->
         AIServiceError("Invalid response format from AI service", "api", FALSE)
    [] OTHER -> Null

\* mutant: the emptiness of the question is tested without trim()
ValidationError_NoTrim(question) ==
  IF question = <<>> \/ question \in {Undefined, NotAString}
  THEN AIServiceError("Question must be a non-empty string", "validation", FALSE)
  ELSE IF TextLength(question) = 0
  THEN AIServiceError("Question cannot be empty or only whitespace", "validation", FALSE)
  ELSE IF TextLength(Trim(question)) > MaxQuestionLength
  THEN AIServiceError("Question is too long (maximum 5000 characters)", "validation", FALSE)
  ELSE Null

\* generateResponse, input validation: the error thrown, Null if none.
\* !question holds of '', null and undefined, the typeof test fails for any
\* other value that is no string
ValidationError(question) ==
  IF question = <<>> \/ question \in {Undefined, NotAString}
  THEN AIServiceError("Question must be a non-empty string", "validation", FALSE)
  ELSE IF TextLength(Trim(question)) = 0
  THEN AIServiceError("Question cannot be empty or only whitespace", "validation", FALSE)
  ELSE IF TextLength(Trim(question)) > MaxQuestionLength
  THEN AIServiceError("Question is too long (maximum 5000 characters)", "validation", FALSE)
  ELSE Null

\* getErrorMessage(error)
getErrorMessage(err) ==
  CASE err.type = "network" ->
         "Unable to connect to the AI service. Please check your internet connection and try again."
    [] err.type = "timeout" -> "The request took too long to complete. Please try again."
    [] err.type = "validation" -> err.message
    [] err.type = "api" ->
         IF err.message = StatusMessage(429)
         THEN "Too many requests. Please wait a moment before trying again."
         ELSE IF err.message = StatusMessage(503)
         THEN "The AI service is temporarily unavailable. Please try again in a few minutes."
         ELSE "The AI service encountered an error. Please try again."
    [] OTHER -> "An unexpected error occurred. Please try again."

\* Math.pow(2, n)
RECURSIVE Pow2(_)
Pow2(n) == IF n = 0 THEN 1 ELSE 2 * Pow2(n - 1)

\* mutant: the same delay after every attempt
delayMs_Constant(attempt) == retryDelay

\* the backoff delay after the failed attempt
delayMs(attempt) == retryDelay * Pow2(attempt - 1)

(***************************************************************************)
(* services/demoAIService.ts                                               *)
(***************************************************************************)

\* the number of templates DEMO_RESPONSES holds for a mode
DemoVariants(mode) ==
  CASE mode = "explain-simple" -> {"1", "2"}
    [] mode = "summarize" -> {"1", "2"}
    [] mode = "generate-quiz" -> {"1"}
    [] OTHER -> {"1", "2", "3"}

\* template(question): the template's text around the question is one symbol
DEMO_RESPONSES(mode, variant, question) ==
  <<"demo response", IF mode = NoMode THEN "default" ELSE mode, variant>> \o question

(***************************************************************************)
(* App.tsx: the continuation of handleQuestionSubmit after its await       *)
(***************************************************************************)

ErrorTypes == {"network", "api", "timeout", "validation"}

\* mutant: the success path leaves the loading flag set
SubmitSucceeded_KeepsLoading(c, content) ==
  /\ responses' = Append(responses, [content |-> content, mode |-> calls[c].mode])
  /\ isLoading' = isLoading
  /\ error' = Null
  /\ UNCHANGED lastQuestion

\* mutant: setResponses([newResponse]) instead of appending to prev
SubmitSucceeded_Replaces(c, content) ==
  /\ responses' = <<[content |-> content, mode |-> calls[c].mode]>>
  /\ isLoading' = FALSE
  /\ error' = Null
  /\ UNCHANGED lastQuestion

\* mutant: a statement of the try block throws after setResponses, so the
\* catch block runs as well
SubmitSucceeded_ThenCatch(c, content) ==
  /\ responses' = Append(responses, [content |-> content, mode |-> calls[c].mode])
  /\ isLoading' = FALSE
  /\ error' = [type |-> "api",
               message |-> "An unexpected error occurred. Please try again.",
               retryable |-> TRUE]
  /\ UNCHANGED lastQuestion

\* the try block after generateResponse has returned content to call c
SubmitSucceeded(c, content) ==
  /\ responses' = Append(responses, [content |-> content, mode |-> calls[c].mode])
  /\ isLoading' = FALSE
  /\ error' = Null
  /\ UNCHANGED lastQuestion

\* mutant: the instanceof test fails for every error
SubmitFailed_NotInstance(c, err) ==
  /\ isLoading' = FALSE
  /\ error' = [type |-> "api",
               message |-> "An unexpected error occurred. Please try again.",
               retryable |-> TRUE]
  /\ UNCHANGED <<responses, lastQuestion>>

\* mutant: the catch block does not reset the loading flag
SubmitFailed_KeepsLoading(c, err) ==
  /\ error' = IF err.type \in ErrorTypes
              THEN [type |-> err.type, message |-> getErrorMessage(err),
                    retryable |-> err.retryable]
              ELSE [type |-> "api",
                    message |-> "An unexpected error occurred. Please try again.",
                    retryable |-> TRUE]
  /\ UNCHANGED <<responses, isLoading, lastQuestion>>

\* mutant: only an AIServiceError is handled, any other rejection leaves
\* the handler as an unhandled rejection
SubmitFailed_OnlyClassified(c, err) ==
  IF err.type \in ErrorTypes
  THEN /\ isLoading' = FALSE
       /\ error' = [type |-> err.type, message |-> getErrorMessage(err),
                    retryable |-> err.retryable]
       /\ UNCHANGED <<responses, lastQuestion>>
  ELSE UNCHANGED app

\* the catch block, err thrown by generateResponse
SubmitFailed(c, err) ==
  /\ isLoading' = FALSE
  /\ error' = IF err.type \in ErrorTypes
              THEN [type |-> err.type, message |-> getErrorMessage(err),
                    retryable |-> err.retryable]
              ELSE [type |-> "api",
                    message |-> "An unexpected error occurred. Please try again.",
                    retryable |-> TRUE]
  /\ UNCHANGED <<responses, lastQuestion>>

(***************************************************************************)
(* A generateResponse call c is a record: its arguments, which service     *)
(* runs it, where it waits (pc), and for KiroAIService the prompt, the     *)
(* attempt counter, lastError and the backoff delays waited so far.        *)
(* result, value and thrown are the settlement of its promise; settled     *)
(* counts the resumptions of the caller's await; awaited tells that the     *)
(* caller is handleQuestionSubmit.                                         *)
(* pc: "demoDelay" (DemoAIService's timer), "rejecting" (a validation      *)
(* error was thrown, the rejection is not delivered yet), "race" (await    *)
(* Promise.race), "json" (await response.json()), "backoff" (await         *)
(* delay), "done".                                                         *)
(* The record of a call that is done is history: it stays as the call     *)
(* ended until the next call is made, and then keeps only result and       *)
(* settled.                                                                *)
(* requests holds the makeRequest invocations whose fetch is pending: a    *)
(* request's race is "pending" while Promise.race awaits, and "timer"      *)
(* once the timer has won; the request then dangles (nothing aborts the    *)
(* fetch) until the fetch settles.                                         *)
(***************************************************************************)

NewCall(question, mode, service) ==
  [question |-> question, mode |-> mode, service |-> service, pc |-> "",
   prompt |-> <<>>, attempt |-> 0, lastError |-> Null, waits |-> <<>>,
   result |-> "pending", value |-> <<>>, thrown |-> Null, settled |-> 0,
   awaited |-> TRUE]

\* makeRequest(prompt) up to its await: the fetch is issued, the timer set
NewRequest(c, attempt, prompt) ==
  [call |-> c, attempt |-> attempt, prompt |-> prompt, timer |-> timeout,
   race |-> "pending"]

\* the record of a call whose promise has settled
Done(call, result, value, err) ==
  [call EXCEPT !.pc = "done", !.result = result, !.value = value,
               !.thrown = err, !.settled = call.settled + 1]

\* what is kept of the calls made so far when the next call is made
Forget(cs) ==
  [c \in 1..Len(cs) |->
     IF cs[c].pc = "done"
     THEN [NewCall(<<>>, NoMode, cs[c].service) EXCEPT
             !.pc = "done", !.result = cs[c].result, !.settled = cs[c].settled]
     ELSE cs[c]]

\* return response: the call's promise fulfils and the controller resumes
Return(c, content, reqs) ==
  /\ calls' = [calls EXCEPT ![c] = Done(calls[c], "fulfilled", content, Null)]
  /\ requests' = reqs
  /\ IF calls[c].awaited THEN SubmitSucceeded(c, content) ELSE UNCHANGED app

\* throw err: the promise of call c (of the calls cs) rejects and the
\* controller resumes
Throw(cs, c, err, reqs) ==
  /\ calls' = [cs EXCEPT ![c] = Done(cs[c], "rejected", <<>>, err)]
  /\ requests' = reqs
  /\ IF cs[c].awaited THEN SubmitFailed(c, err) ELSE UNCHANGED app

\* mutant: lastError keeps the error of the first failed attempt
AttemptFailed_KeepsFirst(c, err, reqs) ==
  LET failed == IF calls[c].lastError = Null
                THEN [calls EXCEPT ![c].lastError = err]
                ELSE calls
  IN IF ~failed[c].lastError.retryable \/ calls[c].attempt = maxRetries
     THEN Throw(failed, c, failed[c].lastError, reqs)
     ELSE /\ calls' = [failed EXCEPT ![c].pc = "backoff",
                         ![c].waits = Append(@, delayMs(calls[c].attempt))]
          /\ requests' = reqs
          /\ UNCHANGED app

\* mutant: the loop goes on after an error that is not retryable
AttemptFailed_RetriesAll(c, err, reqs) ==
  LET failed == [calls EXCEPT ![c].lastError = err]
  IN IF calls[c].attempt = maxRetries
     THEN Throw(failed, c, failed[c].lastError, reqs)
     ELSE /\ calls' = [failed EXCEPT ![c].pc = "backoff",
                         ![c].waits = Append(@, delayMs(calls[c].attempt))]
          /\ requests' = reqs
          /\ UNCHANGED app

\* mutant: the next attempt is made without the backoff delay
AttemptFailed_NoBackoff(c, err, reqs) ==
  LET failed == [calls EXCEPT ![c].lastError = err]
  IN IF ~failed[c].lastError.retryable \/ calls[c].attempt = maxRetries
     THEN Throw(failed, c, failed[c].lastError, reqs)
     ELSE /\ calls' = [failed EXCEPT ![c].pc = "race", ![c].attempt = @ + 1]
          /\ requests' = Append(reqs, NewRequest(c, calls[c].attempt + 1, calls[c].prompt))
          /\ UNCHANGED app

\* the catch block of the attempt loop, and the throw after the loop
AttemptFailed(c, err, reqs) ==
  LET failed == [calls EXCEPT ![c].lastError = err]
  IN IF ~failed[c].lastError.retryable \/ calls[c].attempt = maxRetries
     THEN Throw(failed, c, failed[c].lastError, reqs)
     ELSE /\ calls' = [failed EXCEPT ![c].pc = "backoff",
                         ![c].waits = Append(@, delayMs(calls[c].attempt))]
          /\ requests' = reqs
          /\ UNCHANGED app

\* the requests without the r-th
Remove(reqs, r) == SubSeq(reqs, 1, r - 1) \o SubSeq(reqs, r + 1, Len(reqs))

\* mutant: the result of the fetch is used whenever it arrives
RaceAwaits_Always(r) == TRUE

\* Promise.race([requestPromise, timeout]) of request r is still pending:
\* the first of the two to settle settles it, the other is ignored
RaceAwaits(r) == requests[r].race = "pending"

(***************************************************************************)
(* KiroAIService                                                           *)
(***************************************************************************)

\* generateResponse(question, mode) up to its first await
KiroGenerateResponse(question, mode) ==
  LET c == Len(calls) + 1
      call == NewCall(question, mode, "kiro")
      formattedPrompt == formatPrompt(Trim(question), mode)
  IN IF ValidationError(question) # Null
     THEN /\ calls' = Append(Forget(calls), [call EXCEPT !.pc = "rejecting",
                                       !.thrown = ValidationError(question)])
          /\ requests' = requests
     ELSE /\ calls' = Append(Forget(calls), [call EXCEPT !.pc = "race", !.attempt = 1,
                                       !.prompt = formattedPrompt])
          /\ requests' = Append(requests, NewRequest(c, 1, formattedPrompt))

\* the rejection of a call that failed validation reaches the controller
ValidationRejects(c) ==
  /\ calls[c].pc = "rejecting"
  /\ Throw(calls, c, calls[c].thrown, requests)
  /\ lastOp' = Op("none")
  /\ UNCHANGED <<form, DEMO_MODE, callCount>>

\* the fetch of request r resolves with a response of the given status
FetchResolves(r, status) ==
  /\ LET c == requests[r].call
     IN IF RaceAwaits(r)
        THEN IF ~ResponseOk(status)
             THEN AttemptFailed(c, StatusError(status), Remove(requests, r))
             ELSE /\ calls' = [calls EXCEPT ![c].pc = "json"]
                  /\ requests' = Remove(requests, r)
                  /\ UNCHANGED app
        ELSE /\ requests' = Remove(requests, r)
             /\ UNCHANGED <<app, calls>>
  /\ lastOp' = IF RaceAwaits(r) THEN Settled("response", requests[r].call, status)
                                ELSE Op("discard")
  /\ UNCHANGED <<form, DEMO_MODE, callCount>>

\* the fetch of request r rejects
FetchRejects(r, rejection) ==
  /\ LET c == requests[r].call
     IN IF RaceAwaits(r)
        THEN AttemptFailed(c, ClassifyRejection(rejection), Remove(requests, r))
        ELSE /\ requests' = Remove(requests, r)
             /\ UNCHANGED <<app, calls>>
  /\ lastOp' = IF RaceAwaits(r) THEN Settled("rejection", requests[r].call, rejection)
                                ELSE Op("discard")
  /\ UNCHANGED <<form, DEMO_MODE, callCount>>

\* the timer of request r fires while its race is pending (a timer that
\* fires after the race has settled changes nothing)
TimerFires(r) ==
  /\ Cardinality({x \in 1..Len(requests) : requests[x].race = "timer"}) < MaxDangling
  /\ RaceAwaits(r)
  /\ AttemptFailed(requests[r].call, createTimeoutPromise,
                   [requests EXCEPT ![r].race = "timer", ![r].prompt = <<>>])
  /\ lastOp' = Settled("timeout", requests[r].call, timeout)
  /\ UNCHANGED <<form, DEMO_MODE, callCount>>

\* mutant: the content is trimmed before it is returned
JsonSettles_Trims(c, out) ==
  /\ calls[c].pc = "json"
  /\ IF BodyError(out) = Null
     THEN Return(c, Trim(out.content), requests)
     ELSE AttemptFailed(c, BodyError(out), requests)
  /\ lastOp' = Settled("json", c, out)
  /\ UNCHANGED <<form, DEMO_MODE, callCount>>

\* response.json() of call c settles
JsonSettles(c, out) ==
  /\ calls[c].pc = "json"
  /\ IF BodyError(out) = Null
     THEN Return(c, out.content, requests)
     ELSE AttemptFailed(c, BodyError(out), requests)
  /\ lastOp' = Settled("json", c, out)
  /\ UNCHANGED <<form, DEMO_MODE, callCount>>

\* mutant: the next attempt is a new generateResponse call
BackoffElapses_Recurses(c) ==
  /\ calls[c].pc = "backoff"
  /\ calls' = Append([calls EXCEPT ![c].attempt = @ + 1],
                     [NewCall(calls[c].question, calls[c].mode, "kiro") EXCEPT
                        !.pc = "race", !.attempt = 1, !.prompt = calls[c].prompt])
  /\ requests' = Append(requests, NewRequest(Len(calls) + 1, 1, calls[c].prompt))
  /\ lastOp' = Op("none")
  /\ UNCHANGED <<app, form, DEMO_MODE, callCount>>

\* the backoff delay of call c has elapsed: the loop's next attempt
BackoffElapses(c) ==
  /\ calls[c].pc = "backoff"
  /\ calls' = [calls EXCEPT ![c].pc = "race", ![c].attempt = @ + 1]
  /\ requests' = Append(requests, NewRequest(c, calls[c].attempt + 1, calls[c].prompt))
  /\ lastOp' = Op("none")
  /\ UNCHANGED <<app, form, DEMO_MODE, callCount>>

(***************************************************************************)
(* DemoAIService                                                           *)
(***************************************************************************)

\* generateResponse(question, mode) up to its await
DemoGenerateResponse(question, mode) ==
  /\ calls' = Append(Forget(calls),
                      [NewCall(question, mode, "demo") EXCEPT !.pc = "demoDelay"])
  /\ requests' = requests

\* the simulated delay of call c has elapsed
DemoDelayElapses(c, variant) ==
  /\ calls[c].pc = "demoDelay"
  /\ variant \in DemoVariants(calls[c].mode)
  /\ Return(c, DEMO_RESPONSES(calls[c].mode, variant, calls[c].question), requests)
  /\ lastOp' = Op("none")
  /\ UNCHANGED <<form, DEMO_MODE, callCount>>

\* aiService.generateResponse(question, mode)
aiService(question, mode) ==
  /\ Len(calls) < MaxCalls
  /\ IF DEMO_MODE
     THEN DemoGenerateResponse(question, mode)
     ELSE KiroGenerateResponse(question, mode)

(***************************************************************************)
(* App.tsx                                                                 *)
(***************************************************************************)

\* mutant: the emptiness test without trim()
handleQuestionSubmit_NoTrim(question, mode) ==
  IF question = <<>>
  THEN /\ error' = [type |-> "validation", message |-> "Please enter a question",
                    retryable |-> FALSE]
       /\ UNCHANGED <<responses, isLoading, lastQuestion, calls, requests>>
  ELSE /\ lastQuestion' = [question |-> question, mode |-> mode]
       /\ isLoading' = TRUE
       /\ error' = Null
       /\ UNCHANGED responses
       /\ aiService(question, mode)

\* mutant: setError(null) is missing
handleQuestionSubmit_KeepsError(question, mode) ==
  IF Trim(question) = <<>>
  THEN /\ error' = [type |-> "validation", message |-> "Please enter a question",
                    retryable |-> FALSE]
       /\ UNCHANGED <<responses, isLoading, lastQuestion, calls, requests>>
  ELSE /\ lastQuestion' = [question |-> question, mode |-> mode]
       /\ isLoading' = TRUE
       /\ UNCHANGED <<error, responses>>
       /\ aiService(question, mode)

\* mutant: the question is stored for retry before it is validated
handleQuestionSubmit_StoresFirst(question, mode) ==
  IF Trim(question) = <<>>
  THEN /\ error' = [type |-> "validation", message |-> "Please enter a question",
                    retryable |-> FALSE]
       /\ lastQuestion' = [question |-> question, mode |-> mode]
       /\ UNCHANGED <<responses, isLoading, calls, requests>>
  ELSE /\ lastQuestion' = [question |-> question, mode |-> mode]
       /\ isLoading' = TRUE
       /\ error' = Null
       /\ UNCHANGED responses
       /\ aiService(question, mode)

\* mutant: generateResponse is called without the mode
handleQuestionSubmit_NoMode(question, mode) ==
  IF Trim(question) = <<>>
  THEN /\ error' = [type |-> "validation", message |-> "Please enter a question",
                    retryable |-> FALSE]
       /\ UNCHANGED <<responses, isLoading, lastQuestion, calls, requests>>
  ELSE /\ lastQuestion' = [question |-> question, mode |-> mode]
       /\ isLoading' = TRUE
       /\ error' = Null
       /\ UNCHANGED responses
       /\ aiService(question, NoMode)

\* handleQuestionSubmit(question, mode) up to its await
handleQuestionSubmit(question, mode) ==
  IF Trim(question) = <<>>
  THEN /\ error' = [type |-> "validation", message |-> "Please enter a question",
                    retryable |-> FALSE]
       /\ UNCHANGED <<responses, isLoading, lastQuestion, calls, requests>>
  ELSE /\ lastQuestion' = [question |-> question, mode |-> mode]
       /\ isLoading' = TRUE
       /\ error' = Null
       /\ UNCHANGED responses
       /\ aiService(question, mode)

\* mutant: the retry passes the question without its mode
handleRetry_DropsMode ==
  /\ IF lastQuestion # Null
     THEN handleQuestionSubmit(lastQuestion.question, NoMode)
     ELSE UNCHANGED <<app, calls, requests>>
  /\ lastOp' = Op("retry")
  /\ UNCHANGED <<form, DEMO_MODE, callCount>>


\* mutant: retry calls the service itself and leaves the error in place
handleRetry_KeepsError ==
  /\ IF lastQuestion # Null
     THEN /\ isLoading' = TRUE
          /\ UNCHANGED <<responses, error, lastQuestion>>
          /\ aiService(lastQuestion.question, lastQuestion.mode)
     ELSE UNCHANGED <<app, calls, requests>>
  /\ lastOp' = Op("retry")
  /\ UNCHANGED <<form, DEMO_MODE, callCount>>

\* handleRetry()
handleRetry ==
  /\ IF lastQuestion # Null
     THEN handleQuestionSubmit(lastQuestion.question, lastQuestion.mode)
     ELSE UNCHANGED <<app, calls, requests>>
  /\ lastOp' = Op("retry")
  /\ UNCHANGED <<form, DEMO_MODE, callCount>>

(***************************************************************************)
(* components/QuestionInput.tsx, OptionalFeature.tsx, ErrorDisplay.tsx     *)
(***************************************************************************)

\* mutant: the input field is never disabled
InputDisabled_Never == FALSE

\* <input disabled={isLoading}>
InputDisabled == isLoading

\* <button disabled={isLoading || !inputValue.trim()}>
AskDisabled == isLoading \/ Trim(inputValue) = <<>>

\* <OptionalFeature disabled={isLoading}>
SelectDisabled == isLoading

\* mutant: the selector also offers the quiz mode
SelectOptions_WithQuiz == {NoMode, "explain-simple", "summarize", "generate-quiz"}

\* the options of the mode selector
SelectOptions == {NoMode, "explain-simple", "summarize"}

\* mutant: the Retry button is rendered with every error
RetryOffered_Always == error # Null

\* ErrorDisplay renders the Retry button
RetryOffered == error # Null /\ error.retryable

\* mutant: the validation message stays when the input changes
handleInputChange_KeepsMessage(value) ==
  /\ inputValue' = value
  /\ validationError' = validationError
  /\ lastOp' = Op("none")
  /\ UNCHANGED <<selectedMode, app, calls, requests, DEMO_MODE, callCount>>

\* handleInputChange
handleInputChange(value) ==
  /\ inputValue' = value
  /\ validationError' = NoValidationError
  /\ lastOp' = Op("none")
  /\ UNCHANGED <<selectedMode, app, calls, requests, DEMO_MODE, callCount>>

\* mutant: the selected mode takes precedence over the detected one
handleSubmit_SelectedFirst ==
  LET trimmedValue == Trim(inputValue)
      detectedIntent == detectIntent(trimmedValue)
      finalMode == IF selectedMode # NoMode THEN selectedMode ELSE detectedIntent
      cleanedQuestion == IF detectedIntent # NoMode
                         THEN cleanQuestionText(trimmedValue, detectedIntent)
                         ELSE trimmedValue
  IN /\ IF trimmedValue = <<>>
        THEN /\ validationError' = "Please enter a question"
             /\ lastOp' = Op("none")
             /\ UNCHANGED <<inputValue, app, calls, requests>>
        ELSE /\ validationError' = NoValidationError
             /\ handleQuestionSubmit(cleanedQuestion, finalMode)
             /\ lastOp' = Submitted(cleanedQuestion, finalMode)
             /\ inputValue' = <<>>
     /\ UNCHANGED <<selectedMode, DEMO_MODE, callCount>>

\* handleSubmit: the form's submit event
handleSubmit ==
  LET trimmedValue == Trim(inputValue)
      detectedIntent == detectIntent(trimmedValue)
      finalMode == IF detectedIntent # NoMode THEN detectedIntent ELSE selectedMode
      cleanedQuestion == IF detectedIntent # NoMode
                         THEN cleanQuestionText(trimmedValue, detectedIntent)
                         ELSE trimmedValue
  IN /\ IF trimmedValue = <<>>
        THEN /\ validationError' = "Please enter a question"
             /\ lastOp' = Op("none")
             /\ UNCHANGED <<inputValue, app, calls, requests>>
        ELSE /\ validationError' = NoValidationError
             /\ handleQuestionSubmit(cleanedQuestion, finalMode)
             /\ lastOp' = Submitted(cleanedQuestion, finalMode)
             /\ inputValue' = <<>>
     /\ UNCHANGED <<selectedMode, DEMO_MODE, callCount>>

\* mutant: the click submits the input value as typed and leaves it in the
\* field
handleButtonClick_Untrimmed ==
  LET trimmedValue == Trim(inputValue)
      detectedIntent == detectIntent(trimmedValue)
      finalMode == IF detectedIntent # NoMode THEN detectedIntent ELSE selectedMode
      cleanedQuestion == IF detectedIntent # NoMode
                         THEN cleanQuestionText(trimmedValue, detectedIntent)
                         ELSE inputValue
  IN /\ IF trimmedValue = <<>>
        THEN /\ validationError' = "Please enter a question"
             /\ lastOp' = Op("none")
             /\ UNCHANGED <<inputValue, app, calls, requests>>
        ELSE /\ validationError' = NoValidationError
             /\ handleQuestionSubmit(cleanedQuestion, finalMode)
             /\ lastOp' = Submitted(cleanedQuestion, finalMode)
             /\ inputValue' = inputValue
     /\ UNCHANGED <<selectedMode, DEMO_MODE, callCount>>

\* handleButtonClick: the Ask button's click event
handleButtonClick ==
  LET trimmedValue == Trim(inputValue)
      detectedIntent == detectIntent(trimmedValue)
      finalMode == IF detectedIntent # NoMode THEN detectedIntent ELSE selectedMode
      cleanedQuestion == IF detectedIntent # NoMode
                         THEN cleanQuestionText(trimmedValue, detectedIntent)
                         ELSE trimmedValue
  IN /\ IF trimmedValue = <<>>
        THEN /\ validationError' = "Please enter a question"
             /\ lastOp' = Op("none")
             /\ UNCHANGED <<inputValue, app, calls, requests>>
        ELSE /\ validationError' = NoValidationError
             /\ handleQuestionSubmit(cleanedQuestion, finalMode)
             /\ lastOp' = Submitted(cleanedQuestion, finalMode)
             /\ inputValue' = <<>>
     /\ UNCHANGED <<selectedMode, DEMO_MODE, callCount>>

\* the user edits the form until the last call MaxCalls allows is made
UserActive == Len(calls) < MaxCalls

\* the user changes the text of the input field
TypeText(value) ==
  /\ UserActive
  /\ ~InputDisabled
  /\ value # inputValue
  /\ handleInputChange(value)

\* the user picks an option of the mode selector (onModeChange = setSelectedMode)
SelectMode(mode) ==
  /\ UserActive
  /\ ~SelectDisabled
  /\ mode # selectedMode
  /\ selectedMode' = mode
  /\ lastOp' = Op("none")
  /\ UNCHANGED <<inputValue, validationError, app, calls, requests, DEMO_MODE, callCount>>

\* the user presses Enter in the input field
PressEnter == ~InputDisabled /\ handleSubmit

\* the user clicks Ask
ClickAsk == ~AskDisabled /\ handleButtonClick

\* the user clicks Retry
ClickRetry == RetryOffered /\ handleRetry

(***************************************************************************)
(* Specifications                                                          *)
(***************************************************************************)

Init ==
  /\ responses = <<>>
  /\ isLoading = FALSE
  /\ error = Null
  /\ lastQuestion = Null
  /\ inputValue = <<>>
  /\ validationError = NoValidationError
  /\ selectedMode = NoMode
  /\ DEMO_MODE \in BOOLEAN
  /\ callCount = 0
  /\ calls = <<>>
  /\ requests = <<>>
  /\ lastOp = Op("none")

\* timers, the network and the promise jobs
ServiceNext ==
  \/ \E c \in 1..Len(calls) : ValidationRejects(c)
  \/ \E c \in 1..Len(calls) : \E v \in {"1", "2", "3"} : DemoDelayElapses(c, v)
  \/ \E r \in 1..Len(requests) : \E status \in Statuses : FetchResolves(r, status)
  \/ \E r \in 1..Len(requests) : \E rejection \in Rejections : FetchRejects(r, rejection)
  \/ \E r \in 1..Len(requests) : TimerFires(r)
  \/ \E c \in 1..Len(calls) : \E out \in JsonOutcomes : JsonSettles(c, out)
  \/ \E c \in 1..Len(calls) : BackoffElapses(c)

\* what the user types into the field: the texts, and one with spaces
\* around it
Typed == Texts \cup {<<" ", "q", " ">>}

\* the page as the user operates it
Next ==
  \/ \E value \in Typed : TypeText(value)
  \/ \E mode \in SelectOptions : SelectMode(mode)
  \/ PressEnter
  \/ ClickAsk
  \/ ClickRetry
  \/ ServiceNext

Spec == Init /\ [][Next]_vars

\* The page when every service call settles: a step of the service that
\* can be taken is taken in the end. The continuation of the controller's
\* await runs in the step that settles the call.
SpecLive == Init /\ [][Next]_vars /\ WF_vars(ServiceNext)

\* The controller's operations invoked directly, with any question and
\* mode, by a caller that keeps their precondition: not while submitting.
submit(question, mode) ==
  /\ ~isLoading
  /\ handleQuestionSubmit(question, mode)
  /\ lastOp' = Submitted(question, mode)
  /\ UNCHANGED <<form, DEMO_MODE, callCount>>

retry == ~isLoading /\ handleRetry

NextApi ==
  \/ \E question \in Texts \cup {<<>>} : \E mode \in Modes \cup {NoMode} : submit(question, mode)
  \/ retry
  \/ ServiceNext

SpecApi == Init /\ [][NextApi]_vars

\* The arguments a caller of the service passes for the question: the
\* texts, the empty text, texts at the length limit and with spaces around
\* them, and values that are no strings.
Questions ==
  Texts \cup {<<>>, <<Block, " ">>, <<" ", "q", " ">>, Undefined, NotAString}

\* new KiroAIService().generateResponse(question, mode) up to its first
\* await, called by a caller other than the controller, which awaits each
\* call before it makes the next
generateResponse(question, mode) ==
  LET c == Len(calls) + 1
      call == [NewCall(question, mode, "kiro") EXCEPT !.awaited = FALSE]
      formattedPrompt == formatPrompt(Trim(question), mode)
  IN /\ Len(calls) < MaxCalls
     /\ \A d \in 1..Len(calls) : calls[d].pc = "done"
     /\ IF ValidationError(question) # Null
        THEN /\ calls' = Append(Forget(calls), [call EXCEPT !.pc = "rejecting",
                                          !.thrown = ValidationError(question)])
             /\ requests' = requests
        ELSE /\ calls' = Append(Forget(calls), [call EXCEPT !.pc = "race", !.attempt = 1,
                                          !.prompt = formattedPrompt])
             /\ requests' = Append(requests, NewRequest(c, 1, formattedPrompt))
     /\ lastOp' = [op |-> "call", question |-> question, mode |-> mode]
     /\ UNCHANGED <<app, form, DEMO_MODE, callCount>>

\* the steps of KiroAIService
KiroNext ==
  \/ \E c \in 1..Len(calls) : ValidationRejects(c)
  \/ \E r \in 1..Len(requests) : \E status \in Statuses : FetchResolves(r, status)
  \/ \E r \in 1..Len(requests) : \E rejection \in Rejections : FetchRejects(r, rejection)
  \/ \E r \in 1..Len(requests) : TimerFires(r)
  \/ \E c \in 1..Len(calls) : \E out \in JsonOutcomes : JsonSettles(c, out)
  \/ \E c \in 1..Len(calls) : BackoffElapses(c)

NextService ==
  \/ \E question \in Questions : \E mode \in Modes \cup {NoMode} :
       generateResponse(question, mode)
  \/ KiroNext

\* the service class on its own
SpecService == Init /\ [][NextService]_vars

(***************************************************************************)
(* MockAIService, called directly as its tests call it                     *)
(***************************************************************************)

\* mutant: the mock does not test the length of the question
MockValidationError_NoLength(question) ==
  IF question = <<>> \/ question \in {Undefined, NotAString}
  THEN AIServiceError("Question must be a non-empty string", "validation", FALSE)
  ELSE IF TextLength(Trim(question)) = 0
  THEN AIServiceError("Question cannot be empty or only whitespace", "validation", FALSE)
  ELSE Null

\* MockAIService.generateResponse, its input validation: the error thrown,
\* Null if none
MockValidationError(question) ==
  IF question = <<>> \/ question \in {Undefined, NotAString}
  THEN AIServiceError("Question must be a non-empty string", "validation", FALSE)
  ELSE IF TextLength(Trim(question)) = 0
  THEN AIServiceError("Question cannot be empty or only whitespace", "validation", FALSE)
  ELSE IF TextLength(Trim(question)) > MaxQuestionLength
  THEN AIServiceError("Question is too long (maximum 5000 characters)", "validation", FALSE)
  ELSE Null

\* the errors the mock simulates, as its rates and Math.random() decide
MockErrors ==
  { AIServiceError("Request timeout", "timeout", TRUE),
    AIServiceError("Network error: Unable to connect to AI service", "network", TRUE),
    AIServiceError("AI service responded with status 500", "api", TRUE),
    AIServiceError("AI service responded with status 429", "api", FALSE),
    AIServiceError("AI service responded with status 503", "api", TRUE),
    AIServiceError("Invalid response format from AI service", "api", FALSE) }

\* template(trimmedQuestion): the template's text around the question is
\* one symbol
RESPONSE_TEMPLATES(mode, question) ==
  <<"mock response", IF mode = NoMode THEN "default" ELSE mode>> \o question

\* mockService.generateResponse(question, mode) up to its first await or
\* throw, called by a caller that awaits each call before the next
MockGenerateResponse(question, mode) ==
  LET call == [NewCall(question, mode, "mock") EXCEPT !.awaited = FALSE]
  IN /\ Len(calls) < MaxCalls
     /\ \A d \in 1..Len(calls) : calls[d].pc = "done"
     /\ callCount' = callCount + 1
     /\ IF MockValidationError(question) # Null
        THEN calls' = Append(Forget(calls), [call EXCEPT !.pc = "rejecting",
                                      !.thrown = MockValidationError(question)])
        ELSE calls' = Append(Forget(calls), [call EXCEPT !.pc = "mockDelay"])
     /\ lastOp' = [op |-> "call", question |-> question, mode |-> mode]
     /\ UNCHANGED <<app, form, DEMO_MODE, requests>>

\* the simulated delay of call c is over: a simulated error is thrown or
\* the template's text is returned
MockDelayElapses(c, outcome) ==
  /\ calls[c].pc = "mockDelay"
  /\ IF outcome \in MockErrors
     THEN Throw(calls, c, outcome, requests)
     ELSE Return(c, RESPONSE_TEMPLATES(calls[c].mode, Trim(calls[c].question)), requests)
  /\ lastOp' = Op("none")
  /\ UNCHANGED <<form, DEMO_MODE, callCount>>

NextMock ==
  \/ \E question \in Questions : \E mode \in Modes \cup {NoMode} :
       MockGenerateResponse(question, mode)
  \/ \E c \in 1..Len(calls) : ValidationRejects(c)
  \/ \E c \in 1..Len(calls) : \E outcome \in MockErrors \cup {Null} :
       MockDelayElapses(c, outcome)

SpecMock == Init /\ [][NextMock]_vars

\* The controller over a service whose backend answers every request
\* successfully: each fetch resolves with status 200 before its timer fires
\* and its body parses to data with a non-empty content string. The
\* service is KiroAIService or DemoAIService, as DEMO_MODE selects.
NextAnswered ==
  \/ \E question \in Texts \cup {<<>>} : \E mode \in Modes \cup {NoMode} : submit(question, mode)
  \/ \E c \in 1..Len(calls) : ValidationRejects(c)
  \/ \E c \in 1..Len(calls) : \E v \in {"1", "2", "3"} : DemoDelayElapses(c, v)
  \/ \E r \in 1..Len(requests) : FetchResolves(r, 200)
  \/ \E c \in 1..Len(calls) : \E a \in Answers :
       JsonSettles(c, [k |-> "data", content |-> a])

SpecAnswered == Init /\ [][NextAnswered]_vars

\* A thrown value that is no AIServiceError: a plain Error. The field type
\* stands for its class; it has no retryable field of its own.
PlainError == [type |-> "Error", message |-> "boom", retryable |-> FALSE]

\* what an implementation of the AIService interface may reject with
ServiceRejections ==
  { createTimeoutPromise, StatusError(404), StatusError(503),
    ClassifyRejection("TypeError:fetch"), ValidationError(<<>>), PlainError }

\* the requests of the calls other than c
RequestsOfOthers(c) == SelectSeq(requests, LAMBDA r : r.call # c)

\* the promise of call c fulfils with a text
ServiceFulfils(c, content) ==
  /\ calls[c].pc # "done"
  /\ Return(c, content, RequestsOfOthers(c))
  /\ lastOp' = Op("none")
  /\ UNCHANGED <<form, DEMO_MODE, callCount>>

\* the promise of call c rejects with err
ServiceRejects(c, err) ==
  /\ calls[c].pc # "done"
  /\ Throw(calls, c, err, RequestsOfOthers(c))
  /\ lastOp' = Op("none")
  /\ UNCHANGED <<form, DEMO_MODE, callCount>>

\* The controller over any implementation of the AIService interface: a
\* call's promise fulfils with a text or rejects with any value.
NextController ==
  \/ \E question \in Texts \cup {<<>>} : \E mode \in Modes \cup {NoMode} : submit(question, mode)
  \/ retry
  \/ \E c \in 1..Len(calls) : \E a \in Answers : ServiceFulfils(c, a)
  \/ \E c \in 1..Len(calls) : \E err \in ServiceRejections : ServiceRejects(c, err)

SpecController == Init /\ [][NextController]_vars

(***************************************************************************)
(* The intent detector on its own: detectIntent and cleanQuestionText      *)
(* applied to a text, the result kept in lastOp                            *)
(***************************************************************************)

\* the number of pieces a text under test is made of
MaxPieces == 3

\* pieces of typed text: phrases of both modes in both cases, with and
\* without a separator, the halves of a phrase, a space and a letter
Pieces ==
  { <<"e", "l", "i", "5">>,
    <<"t", "l", "d", "r">>,
    <<"t", "l">>,
    <<"d", "r">>,
    <<" ">>,
    <<"q">>,
    <<"T", "L", ";", "D", "R", ":">>,
    <<"E", "x", "p", "l", "a", "i", "n", " ", "s", "i", "m", "p", "l", "y", ",">> }

RECURSIVE Concat(_)
Concat(ps) == IF ps = <<>> THEN <<>> ELSE Head(ps) \o Concat(Tail(ps))

\* the arguments detectIntent is called with
IntentInputs ==
  {Concat(ps) : ps \in UNION {[1..n -> Pieces] : n \in 0..MaxPieces}}
    \cup {Undefined, NotAString}

InitIntent ==
  /\ inputValue \in IntentInputs
  /\ responses = <<>>
  /\ isLoading = FALSE
  /\ error = Null
  /\ lastQuestion = Null
  /\ validationError = NoValidationError
  /\ selectedMode = NoMode
  /\ DEMO_MODE = TRUE
  /\ callCount = 0
  /\ calls = <<>>
  /\ requests = <<>>
  /\ lastOp = Op("none")

\* detectIntent(text) is called with the text under test
ApplyDetectIntent ==
  /\ lastOp = Op("none")
  /\ lastOp' = [op |-> "detectIntent", question |-> inputValue,
                mode |-> detectIntent(inputValue)]
  /\ UNCHANGED <<app, form, DEMO_MODE, callCount, calls, requests>>

\* cleanQuestionText is called with the text under test and no mode
ApplyCleanNoMode ==
  /\ lastOp = Op("none")
  /\ lastOp' = [op |-> "cleanQuestionText",
                question |-> cleanQuestionText(inputValue, NoMode),
                mode |-> NoMode]
  /\ UNCHANGED <<app, form, DEMO_MODE, callCount, calls, requests>>

\* cleanQuestionText is called with the detected mode: first with the text
\* under test, then with its own result
ApplyCleanQuestionText ==
  /\ lastOp.op \in {"detectIntent", "cleanQuestionText"}
  /\ lastOp' = [op |-> "cleanQuestionText",
                question |-> cleanQuestionText(lastOp.question, lastOp.mode),
                mode |-> lastOp.mode]
  /\ UNCHANGED <<app, form, DEMO_MODE, callCount, calls, requests>>

NextIntent ==
  \/ ApplyDetectIntent
  \/ ApplyCleanNoMode
  \/ ApplyCleanQuestionText

SpecIntent == InitIntent /\ [][NextIntent]_vars

(***************************************************************************)
(* Claims                                                                  *)
(***************************************************************************)

\* the calls whose promise has not settled
Outstanding == {c \in 1..Len(calls) : calls[c].pc # "done"}

\* call c settles in this step
Settles(c) == calls[c].pc # "done" /\ calls'[c].pc = "done"

IsPrefix(s, t) == Len(s) <= Len(t) /\ SubSeq(t, 1, Len(s)) = s

\* the requests reqs whose timer has fired, each named by call and attempt
Dangling(reqs) ==
  {<<reqs[r].call, reqs[r].attempt>> : r \in {x \in 1..Len(reqs) : reqs[x].race = "timer"}}

\* C1: at most one generateResponse call is outstanding, loading is true
\* while one is, and no step starts a call while loading is true.
C1_OneRequestInFlight ==
  /\ [](Cardinality(Outstanding) <= 1 /\ (Outstanding # {} => isLoading))
  /\ [][Len(calls') > Len(calls) => ~isLoading]_vars

\* a second call is outstanding after the first has ended, the form disabled
C1_Witness ==
  /\ Len(calls) = 2
  /\ Outstanding = {2}
  /\ isLoading /\ InputDisabled /\ AskDisabled /\ ~RetryOffered

\* C2: the step in which a call fulfils appends exactly one record, with the
\* returned text and the mode of that call, sets loading to false, leaves
\* ErrorState empty and does not change RetryContext.
C2_SuccessAppendsOneRecord ==
  [][\A c \in 1..Len(calls) :
       (Settles(c) /\ calls'[c].result = "fulfilled") =>
         /\ responses' = Append(responses, [content |-> calls'[c].value,
                                            mode |-> calls[c].mode])
         /\ isLoading' = FALSE
         /\ error' = Null
         /\ lastQuestion' = lastQuestion]_vars

\* a summarize submission has succeeded after an earlier success
C2_Witness ==
  /\ Len(calls) = 2 /\ calls[2].pc = "done" /\ calls[2].result = "fulfilled"
  /\ calls[2].mode = "summarize"
  /\ Len(responses) = 2
  /\ responses[2] = [content |-> calls[2].value, mode |-> "summarize"]
  /\ ~isLoading /\ error = Null
  /\ lastQuestion = [question |-> calls[2].question, mode |-> "summarize"]

\* C3: the step in which a call rejects sets loading to false and ErrorState
\* to the type and retryable flag of the error thrown, and changes neither
\* the responses nor RetryContext.
C3_FailureSetsErrorState ==
  [][\A c \in 1..Len(calls) :
       (Settles(c) /\ calls'[c].result = "rejected") =>
         /\ isLoading' = FALSE
         /\ error' # Null
         /\ error'.type = calls'[c].thrown.type
         /\ error'.retryable = calls'[c].thrown.retryable
         /\ responses' = responses
         /\ lastQuestion' = lastQuestion]_vars

\* a call has failed with a non-retryable api error after an earlier success
C3_Witness ==
  /\ Len(calls) = 2 /\ calls[2].pc = "done" /\ calls[2].result = "rejected"
  /\ calls[2].thrown.type = "api" /\ ~calls[2].thrown.retryable
  /\ error # Null /\ error.type = "api" /\ ~error.retryable
  /\ ~isLoading /\ Len(responses) = 1

\* C4: a submit with an empty or whitespace-only question makes no call and
\* no request, sets a validation ErrorState with retryable false, and leaves
\* RetryContext, the responses and the loading flag as they were.
C4_EmptySubmitIsLocal ==
  [][(lastOp'.op = "submit" /\ Trim(lastOp'.question) = <<>>) =>
       /\ calls' = calls
       /\ requests' = requests
       /\ error' # Null /\ error'.type = "validation" /\ ~error'.retryable
       /\ lastQuestion' = lastQuestion
       /\ responses' = responses
       /\ isLoading' = isLoading]_vars

\* a whitespace-only question was submitted after a successful submission
C4_Witness ==
  /\ lastOp.op = "submit" /\ lastOp.question = <<" ">>
  /\ error # Null /\ error.type = "validation"
  /\ Len(calls) = 1 /\ Len(responses) = 1 /\ lastQuestion # Null /\ ~isLoading

\* C5: a submit with a question whose trim is not empty makes one call, with
\* that question and mode, and with it RetryContext is that pair, ErrorState
\* is empty and loading is true.
C5_SubmitStartsCall ==
  [][(lastOp'.op = "submit" /\ Trim(lastOp'.question) # <<>>) =>
       /\ Len(calls') = Len(calls) + 1
       /\ calls'[Len(calls')].question = lastOp'.question
       /\ calls'[Len(calls')].mode = lastOp'.mode
       /\ calls'[Len(calls')].pc # "done"
       /\ lastQuestion' = [question |-> lastOp'.question, mode |-> lastOp'.mode]
       /\ error' = Null
       /\ isLoading' = TRUE]_vars

\* a submission made while the ErrorState of a failed one was live
C5_Witness ==
  /\ lastOp.op = "submit"
  /\ Len(calls) = 2 /\ calls[1].result = "rejected" /\ calls[2].pc # "done"
  /\ lastQuestion = [question |-> lastOp.question, mode |-> "generate-quiz"]
  /\ error = Null /\ isLoading

\* C6: every step leaves the responses a prefix of the new responses, and a
\* call that settles is the one made last, so that the records are in the
\* order of their submissions.
C6_ResponsesAppendOnly ==
  [][/\ IsPrefix(responses, responses')
     /\ Len(responses') <= Len(responses) + 1
     /\ \A c \in 1..Len(calls) : Settles(c) => c = Len(calls)]_vars

\* two submissions have succeeded, one after the other
C6_Witness ==
  /\ Len(responses) = 2
  /\ responses[1].mode = "summarize" /\ responses[2].mode = "explain-simple"
  /\ Len(calls) = 2 /\ Outstanding = {}

\* C7: a retry with no RetryContext changes nothing; otherwise it makes one
\* call with the question and mode of RetryContext, which are those of the
\* call made last, and with the same prompt.
C7_RetryResubmits ==
  [][lastOp'.op = "retry" =>
       IF lastQuestion = Null
       THEN UNCHANGED <<app, form, calls, requests>>
       ELSE /\ Len(calls) >= 1 /\ Len(calls') = Len(calls) + 1
            /\ calls'[Len(calls')].question = lastQuestion.question
            /\ calls'[Len(calls')].mode = lastQuestion.mode
            /\ calls'[Len(calls')].question = calls[Len(calls)].question
            /\ calls'[Len(calls')].mode = calls[Len(calls)].mode
            /\ calls'[Len(calls')].prompt = calls[Len(calls)].prompt
            /\ lastQuestion' = lastQuestion]_vars

\* a summarize question that failed is retried: its prompt is sent again
C7_Witness ==
  /\ lastOp.op = "retry"
  /\ Len(calls) = 2 /\ calls[1].result = "rejected" /\ calls[2].pc = "race"
  /\ lastQuestion # Null /\ lastQuestion.mode = "summarize"
  /\ Len(requests) = 1
  /\ requests[1].prompt = formatPrompt(lastQuestion.question, "summarize")

\* C8: calls are made one at a time and only by a submit or a retry, each
\* of which (with a question to send) makes exactly one; while a call stays
\* in progress through its attempts loading is true, ErrorState is empty and
\* the controller's state does not change.
C8_NoAutomaticRetry ==
  [][/\ Len(calls') # Len(calls) =>
          Len(calls') = Len(calls) + 1 /\ lastOp'.op \in {"submit", "retry"}
     /\ (lastOp'.op = "submit" /\ Trim(lastOp'.question) # <<>>) =>
          Len(calls') = Len(calls) + 1
     /\ (lastOp'.op = "retry" /\ lastQuestion # Null) =>
          Len(calls') = Len(calls) + 1
     /\ \A c \in 1..Len(calls) :
          (calls[c].pc # "done" /\ calls'[c].pc # "done") =>
            /\ UNCHANGED app
            /\ isLoading /\ error = Null]_vars

\* a call is in its third attempt and a call has failed before it
C8_Witness ==
  /\ Len(calls) = 2 /\ calls[1].result = "rejected"
  /\ calls[2].pc = "race" /\ calls[2].attempt = 3
  /\ calls[2].lastError # Null
  /\ isLoading /\ error = Null

\* C9: a call settles at most once, as fulfilled with a record appended and
\* ErrorState empty or as rejected with ErrorState set and the responses
\* unchanged; nothing else appends a record, and only a submit sets an
\* ErrorState otherwise.
C9_OneCompletionOnce ==
  [][/\ \A c \in 1..Len(calls) :
          /\ calls'[c].settled = calls[c].settled + (IF Settles(c) THEN 1 ELSE 0)
          /\ calls'[c].settled <= 1
          /\ (calls'[c].pc = "done") = (calls'[c].settled = 1)
          /\ Settles(c) =>
               \/ /\ calls'[c].result = "fulfilled"
                  /\ Len(responses') = Len(responses) + 1
                  /\ error' = Null
               \/ /\ calls'[c].result = "rejected"
                  /\ responses' = responses
                  /\ error' # Null
     /\ (responses' # responses \/ (error' \notin {error, Null} /\ lastOp'.op # "submit"))
          => \E c \in 1..Len(calls) : Settles(c)]_vars

\* the fetch of a timed-out attempt has settled after its call fulfilled
C9_Witness ==
  /\ lastOp.op = "discard"
  /\ Len(calls) = 1 /\ calls[1].pc = "done" /\ calls[1].result = "fulfilled"
  /\ calls[1].settled = 1
  /\ Len(responses) = 1 /\ error = Null

\* C10: when the timer of an attempt fires first, the attempt fails with the
\* timeout error (retryable), which is thrown if the attempt was the last;
\* and the step in which a fetch settles after its timer has fired changes
\* neither the calls nor the controller's state.
C10_TimeoutDiscardsLateResult ==
  [][/\ \A r \in 1..Len(requests) :
          (requests[r].race = "pending"
             /\ <<requests[r].call, requests[r].attempt>> \in Dangling(requests')) =>
            LET c == requests[r].call
            IN /\ calls'[c].lastError = createTimeoutPromise
               /\ calls'[c].lastError.type = "timeout"
               /\ calls'[c].lastError.retryable
               /\ IF calls[c].attempt = maxRetries
                  THEN /\ calls'[c].result = "rejected"
                       /\ calls'[c].thrown = createTimeoutPromise
                       /\ error' # Null /\ error'.type = "timeout" /\ error'.retryable
                  ELSE calls'[c].pc = "backoff" /\ UNCHANGED app
     /\ ~(Dangling(requests) \subseteq Dangling(requests')) =>
          UNCHANGED <<app, calls>>]_vars

\* the fetch of a timed-out attempt of the first call settles while the
\* first attempt of the next call is awaited
C10_Witness ==
  /\ lastOp.op = "discard"
  /\ Len(calls) = 2 /\ calls[1].result = "rejected"
  /\ calls[2].pc = "race" /\ calls[2].attempt = 1
  /\ Len(requests) = 1 /\ requests[1].call = 2
  /\ isLoading /\ error = Null

\* the fetches of reqs, each named by call and attempt
ReqIds(reqs) == {<<reqs[r].call, reqs[r].attempt>> : r \in 1..Len(reqs)}

\* the fetches issued in this step
Issued == ReqIds(requests') \ ReqIds(requests)

\* the steps of the service that settle an attempt
AttemptOps == {"response", "rejection", "timeout", "json"}

\* the error the attempt settled by the event ev fails with, Null if the
\* attempt does not fail
EventError(ev) ==
  CASE ev.op = "response" ->
         IF ResponseOk(ev.outcome) THEN Null ELSE StatusError(ev.outcome)
    [] ev.op = "rejection" -> ClassifyRejection(ev.outcome)
    [] ev.op = "timeout" -> createTimeoutPromise
    [] ev.op = "json" -> BodyError(ev.outcome)
    [] OTHER -> Null

\* C11: a call with a valid question issues its first request at once, each
\* further request is the next attempt of a call and no attempt is beyond
\* the 3rd; when the 3rd attempt fails the call rejects in that step with
\* the error of that attempt, an error with a type and a retryable flag.
C11_AtMostThreeAttempts ==
  [][/\ Cardinality(Issued) <= 1
     /\ \A id \in Issued :
          /\ id[2] \in 1..maxRetries
          /\ calls'[id[1]].attempt = id[2]
          /\ IF id[1] > Len(calls) THEN id[2] = 1
             ELSE id[2] = calls[id[1]].attempt + 1
     /\ (lastOp'.op = "call" /\ ValidationError(lastOp'.question) = Null) =>
          Issued = {<<Len(calls'), 1>>}
     /\ (lastOp'.op \in AttemptOps /\ EventError(lastOp') # Null
           /\ calls[lastOp'.call].attempt = maxRetries) =>
          LET c == lastOp'.call
          IN /\ calls'[c].pc = "done" /\ calls'[c].result = "rejected"
             /\ calls'[c].thrown = EventError(lastOp')
             /\ calls'[c].thrown.type \in ErrorTypes
             /\ calls'[c].thrown.retryable \in BOOLEAN
             /\ Issued = {}]_vars

\* a call has rejected with the network error of its 3rd attempt
C11_Witness ==
  /\ lastOp.op = "rejection"
  /\ Len(calls) = 1 /\ ~calls[1].awaited
  /\ calls[1].pc = "done" /\ calls[1].result = "rejected"
  /\ calls[1].attempt = 3
  /\ calls[1].thrown.type = "network" /\ calls[1].thrown.retryable
  /\ requests = <<>>

\* a question that is no string, is empty or only whitespace, or is longer
\* than 5000 characters once trimmed
Invalid(q) ==
  \/ q \in {Undefined, NotAString}
  \/ Trim(q) = <<>>
  \/ TextLength(Trim(q)) > 5000

C13_NonRetryableEndsCall ==
  [][/\ (lastOp'.op \in AttemptOps /\ EventError(lastOp') # Null
           /\ ~EventError(lastOp').retryable) =>
          LET c == lastOp'.call
          IN /\ calls'[c].pc = "done" /\ calls'[c].result = "rejected"
             /\ calls'[c].thrown = EventError(lastOp')
             /\ calls'[c].attempt = calls[c].attempt
             /\ calls'[c].waits = calls[c].waits
             /\ Issued = {}
     /\ \A id \in Issued : id[1] > Len(calls) \/ calls[id[1]].pc = "backoff"
     /\ \A c \in 1..Len(calls) :
          (Settles(c) /\ calls'[c].result = "rejected"
             /\ calls'[c].thrown.type = "validation") =>
            calls'[c].attempt = 0 /\ calls'[c].waits = <<>>]_vars

\* the 2nd attempt of a call got status 404 and the call has rejected
C13_Witness ==
  /\ lastOp.op = "response" /\ lastOp.outcome = 404
  /\ Len(calls) = 1 /\ ~calls[1].awaited
  /\ calls[1].pc = "done" /\ calls[1].result = "rejected"
  /\ calls[1].attempt = 2 /\ calls[1].waits = <<1000>>
  /\ calls[1].thrown.type = "api" /\ ~calls[1].thrown.retryable
  /\ requests = <<>>

\* the requests of call c in reqs whose race is still awaited
Awaited(reqs, c) ==
  {r \in 1..Len(reqs) : reqs[r].call = c /\ reqs[r].race = "pending"}

\* C14: request 2 is issued when a wait of 1000 ms has elapsed and request
\* 3 when a wait of 2000 ms has, each wait begun by a retryable failure of
\* the attempt before, whose request is no longer awaited; a call that
\* succeeds in its 3rd attempt has issued 3 requests, has waited 1000 and
\* 2000 ms, and returns the content of that attempt's body.
C14_RetryThenSucceed ==
  [][/\ \A id \in Issued :
          id[2] > 1 =>
            LET c == id[1]
            IN /\ calls[c].pc = "backoff"
               /\ Len(calls[c].waits) = id[2] - 1
               /\ calls[c].waits[1] = 1000
               /\ id[2] = 3 => calls[c].waits[2] = 2000
               /\ Awaited(requests, c) = {}
     /\ \A c \in 1..Len(calls) :
          /\ (calls[c].pc # "backoff" /\ calls'[c].pc = "backoff") =>
               /\ lastOp'.op \in AttemptOps /\ lastOp'.call = c
               /\ EventError(lastOp') # Null /\ EventError(lastOp').retryable
               /\ Len(calls'[c].waits) = calls[c].attempt
               /\ Awaited(requests', c) = {}
               /\ Issued = {}
          /\ (Settles(c) /\ calls'[c].result = "fulfilled" /\ calls[c].attempt = 3) =>
               /\ lastOp'.op = "json" /\ lastOp'.call = c
               /\ calls'[c].value = lastOp'.outcome.content
               /\ calls'[c].attempt = 3
               /\ calls'[c].waits = <<1000, 2000>>
               /\ Awaited(requests', c) = {}
               /\ Issued = {}]_vars

\* a call has returned the text of its 3rd attempt after two waits
C14_Witness ==
  /\ lastOp.op = "json"
  /\ Len(calls) = 1 /\ ~calls[1].awaited
  /\ calls[1].pc = "done" /\ calls[1].result = "fulfilled"
  /\ calls[1].attempt = 3 /\ calls[1].waits = <<1000, 2000>>
  /\ calls[1].value = <<" ", "A", "1", " ">>
  /\ requests = <<>>

\* C15: a call waits only in the step where its attempt k fails with a
\* retryable error and k < 3, and the wait is then 1000 * 2^(k-1) ms: 1000
\* after attempt 1 and 2000 after attempt 2; no wait follows attempt 3 or an
\* error that is not retryable.
C15_BackoffDelays ==
  [][\A c \in 1..Len(calls) :
       calls[c].pc # "done" =>
         LET k == calls[c].attempt
             failed == /\ lastOp'.op \in AttemptOps /\ lastOp'.call = c
                       /\ EventError(lastOp') # Null
         IN /\ IF failed /\ EventError(lastOp').retryable /\ k < 3
               THEN /\ calls'[c].pc = "backoff"
                    /\ calls'[c].waits =
                         Append(calls[c].waits, IF k = 1 THEN 1000 ELSE 2000)
               ELSE /\ calls'[c].waits = calls[c].waits
                    /\ calls'[c].pc = "backoff" => calls[c].pc = "backoff"
            /\ Len(calls'[c].waits) <= 2
            /\ calls'[c].pc = "backoff" =>
                 /\ calls'[c].attempt = Len(calls'[c].waits)
                 /\ calls'[c].waits = SubSeq(<<1000, 2000>>, 1, calls'[c].attempt)]_vars

\* a call waits 2000 ms after its 2nd attempt timed out
C15_Witness ==
  /\ lastOp.op = "timeout"
  /\ Len(calls) = 1 /\ ~calls[1].awaited
  /\ calls[1].pc = "backoff" /\ calls[1].attempt = 2
  /\ calls[1].waits = <<1000, 2000>>
  /\ calls[1].lastError.type = "timeout"

\* C16: an attempt whose response has a status outside 200..299 fails with
\* an api error whose retryable flag is (status >= 500); with a status of
\* 500 or more the call waits for its next attempt, or after attempt 3
\* rejects with that error, retryable true; with another status the call
\* rejects at once with that error, retryable false.
C16_StatusClassification ==
  [][(lastOp'.op = "response" /\ ~(lastOp'.outcome >= 200 /\ lastOp'.outcome <= 299)) =>
       LET c == lastOp'.call
           status == lastOp'.outcome
           e == calls'[c].lastError
       IN /\ e # Null /\ e.type = "api" /\ e.retryable = (status >= 500)
          /\ Issued = {}
          /\ IF status >= 500 /\ calls[c].attempt < 3
             THEN calls'[c].pc = "backoff" /\ calls'[c].result = "pending"
             ELSE /\ calls'[c].pc = "done" /\ calls'[c].result = "rejected"
                  /\ calls'[c].thrown = e
                  /\ calls'[c].thrown.retryable = (status >= 500)
                  /\ calls'[c].attempt = calls[c].attempt]_vars

\* the 3rd attempt of a call got status 503 and the call has rejected
C16_Witness ==
  /\ lastOp.op = "response" /\ lastOp.outcome = 503
  /\ Len(calls) = 1 /\ ~calls[1].awaited
  /\ calls[1].pc = "done" /\ calls[1].result = "rejected"
  /\ calls[1].attempt = 3
  /\ calls[1].thrown.type = "api" /\ calls[1].thrown.retryable

\* C17: when the body of a 2xx response is parsed and is null, has no
\* content field or has one that is no string, the call rejects in that
\* step with an api error, retryable false, with no wait and no further
\* request.
C17_MalformedBodyNotRetried ==
  [][(/\ lastOp'.op = "json"
      /\ \/ lastOp'.outcome.k = "null"
         \/ /\ lastOp'.outcome.k = "data"
            /\ lastOp'.outcome.content \in {Undefined, NotAString}) =>
       LET c == lastOp'.call
       IN /\ calls[c].pc = "json"
          /\ calls'[c].pc = "done" /\ calls'[c].result = "rejected"
          /\ calls'[c].thrown # Null
          /\ calls'[c].thrown.type = "api" /\ ~calls'[c].thrown.retryable
          /\ calls'[c].attempt = calls[c].attempt
          /\ calls'[c].waits = calls[c].waits
          /\ Issued = {}]_vars

\* the body of the 1st attempt had a content that is no string and the
\* call has rejected
C17_Witness ==
  /\ lastOp.op = "json" /\ lastOp.outcome.k = "data"
  /\ lastOp.outcome.content = NotAString
  /\ Len(calls) = 1 /\ ~calls[1].awaited
  /\ calls[1].pc = "done" /\ calls[1].result = "rejected"
  /\ calls[1].attempt = 1 /\ calls[1].waits = <<>>
  /\ calls[1].thrown.type = "api" /\ ~calls[1].thrown.retryable
  /\ requests = <<>>

\* C18: when the body of a 2xx response is parsed and its content is a
\* string that is not empty, the call returns in that step exactly that
\* string, and issues no further request.
C18_ContentReturnedVerbatim ==
  [][(/\ lastOp'.op = "json" /\ lastOp'.outcome.k = "data"
      /\ lastOp'.outcome.content \notin {Undefined, NotAString}
      /\ lastOp'.outcome.content # <<>>) =>
       LET c == lastOp'.call
       IN /\ calls[c].pc = "json"
          /\ calls'[c].pc = "done" /\ calls'[c].result = "fulfilled"
          /\ calls'[c].value = lastOp'.outcome.content
          /\ calls'[c].attempt = calls[c].attempt
          /\ Issued = {}]_vars

\* C18 as stated, for every string: when the body of a 2xx response is
\* parsed and its content is a string, the call returns that string.
C18_EveryStringReturned ==
  [][(/\ lastOp'.op = "json" /\ lastOp'.outcome.k = "data"
      /\ lastOp'.outcome.content \notin {Undefined, NotAString}) =>
       LET c == lastOp'.call
       IN /\ calls'[c].pc = "done" /\ calls'[c].result = "fulfilled"
          /\ calls'[c].value = lastOp'.outcome.content]_vars

\* the 2nd attempt of a call has returned the content of its body, spaces
\* and capitals as they were
C18_Witness ==
  /\ lastOp.op = "json" /\ lastOp.outcome.k = "data"
  /\ lastOp.outcome.content = <<" ", "A", "1", " ">>
  /\ Len(calls) = 1 /\ ~calls[1].awaited
  /\ calls[1].pc = "done" /\ calls[1].result = "fulfilled"
  /\ calls[1].value = <<" ", "A", "1", " ">>
  /\ calls[1].attempt = 2
  /\ requests = <<>>

\* C19: when the fetch of an attempt rejects, the attempt fails with a
\* network error, retryable true, and the call waits for its next attempt,
\* or after attempt 3 rejects with that error.
C19_TransportFailureIsNetwork ==
  [][lastOp'.op = "rejection" =>
       LET c == lastOp'.call
           e == calls'[c].lastError
       IN /\ e # Null /\ e.type = "network" /\ e.retryable
          /\ IF calls[c].attempt < 3
             THEN calls'[c].pc = "backoff"
             ELSE /\ calls'[c].pc = "done" /\ calls'[c].result = "rejected"
                  /\ calls'[c].thrown = e]_vars

\* the instruction a mode's prompt begins with
Instruction(mode) ==
  CASE mode = "explain-simple" ->
         <<"Please explain this in simple terms that a 12-year-old could understand: ">>
    [] mode = "summarize" -> <<"Please provide a concise summary of this topic: ">>
    [] mode = "generate-quiz" -> <<"Please generate 5 quiz questions about this topic: ">>
    [] OTHER -> <<>>

\* the request of reqs named by call and attempt
ReqOf(reqs, id) ==
  reqs[CHOOSE r \in 1..Len(reqs) : reqs[r].call = id[1] /\ reqs[r].attempt = id[2]]

\* C20: every request a call issues, at whatever attempt, carries as its
\* prompt the instruction of the call's mode (none without a mode) followed
\* by the trimmed question, and the instructions of the three modes differ.
C20_PromptOfCall ==
  [][\A id \in Issued :
       LET c == id[1]
           q == calls'[c].question
           mode == calls'[c].mode
       IN /\ ReqOf(requests', id).prompt = Instruction(mode) \o Trim(q)
          /\ mode = NoMode => ReqOf(requests', id).prompt = Trim(q)
          /\ mode # NoMode =>
               /\ Len(ReqOf(requests', id).prompt) = Len(Trim(q)) + 1
               /\ \A other \in Modes \ {mode} :
                    Head(ReqOf(requests', id).prompt) # Head(Instruction(other))
          /\ calls'[c].prompt = ReqOf(requests', id).prompt
          /\ id[2] > 1 => calls[c].prompt = calls'[c].prompt]_vars

\* the 3rd request of a quiz call on " q " carries the quiz instruction and
\* the trimmed question
C20_Witness ==
  /\ Len(calls) = 1 /\ ~calls[1].awaited
  /\ calls[1].question = <<" ", "q", " ">> /\ calls[1].mode = "generate-quiz"
  /\ calls[1].pc = "race" /\ calls[1].attempt = 3
  /\ Len(requests) = 1 /\ requests[1].attempt = 3
  /\ requests[1].prompt = <<"Please generate 5 quiz questions about this topic: ", "q">>

\* the text s contains the text sub
Contains(s, sub) ==
  \E i \in 1..(Len(s) - Len(sub) + 1) : SubSeq(s, i, i + Len(sub) - 1) = sub

LowerText(t) == [i \in 1..Len(t) |-> Lower(t[i])]

\* phrases of the two modes the pieces can form, as the source's comments
\* spell them
SimplifyPhrases ==
  { <<"e", "l", "i", "5">>,
    <<"e", "x", "p", "l", "a", "i", "n", " ", "s", "i", "m", "p", "l", "y">> }

SummarizePhrases ==
  { <<"t", "l", "d", "r">>, <<"t", "l", ";", "d", "r">> }

\* the text contains one of the phrases, in any case
HasPhrase(t, phrases) == \E p \in phrases : Contains(LowerText(t), p)

\* C23: detectIntent changes no state, and its result is explain-simple for
\* a text that contains a phrase of each mode, summarize for a text that
\* contains summarize phrases only, and none for a text without a phrase,
\* the empty text, a text of spaces and a value that is no text.
C23_DetectIntentResult ==
  [][lastOp'.op = "detectIntent" =>
       LET t == lastOp'.question
           m == lastOp'.mode
           isText == t \notin {Undefined, NotAString}
           simplify == isText /\ HasPhrase(t, SimplifyPhrases)
           summarize == isText /\ HasPhrase(t, SummarizePhrases)
       IN /\ t = inputValue
          /\ UNCHANGED <<app, form, DEMO_MODE, callCount, calls, requests>>
          /\ (simplify /\ summarize) => m = "explain-simple"
          /\ (summarize /\ ~simplify) => m = "summarize"
          /\ (~simplify /\ ~summarize) => m = NoMode
          /\ (~isText \/ Trim(t) = <<>>) => m = NoMode
          /\ m = "explain-simple" => simplify]_vars

\* "TL;DR:" followed by "eli5" was detected as explain-simple
C23_Witness ==
  /\ lastOp.op = "detectIntent"
  /\ lastOp.question = <<"T", "L", ";", "D", "R", ":", "e", "l", "i", "5">>
  /\ lastOp.mode = "explain-simple"

\* the patterns of a mode
PatternsOf(mode) ==
  IF mode = "explain-simple" THEN EXPLAIN_SIMPLE_PATTERNS
  ELSE IF mode = "summarize" THEN SUMMARIZE_PATTERNS
  ELSE <<>>

\* a phrase of the mode is found in the text
PhraseRemains(t, mode) ==
  \E k \in 1..Len(PatternsOf(mode)) : RegexTest(PatternsOf(mode)[k], t)

\* C24: cleanQuestionText is idempotent. Cleaning the cleaned text of t
\* again with m = detectIntent(t) gives the cleaned text, no phrase of m is
\* left in the cleaned text, and with mode none the text is returned as it
\* was passed.
C24_CleanIsIdempotent ==
  [][lastOp'.op = "cleanQuestionText" =>
       /\ (lastOp.op = "cleanQuestionText" /\ lastOp.mode = detectIntent(inputValue))
            => lastOp'.question = lastOp.question
       /\ lastOp.op = "detectIntent"
            => ~PhraseRemains(lastOp'.question, lastOp.mode)
       /\ lastOp'.mode = NoMode
            => lastOp'.question = IF lastOp.op = "none" THEN inputValue
                                  ELSE lastOp.question]_vars

\* C25: with a backend that answers every request successfully, a
\* submission ends the same way whichever service is wired in: as the live
\* service ends it, with a validation ErrorState for a question it does not
\* accept and an appended record otherwise; and the simulated service
\* issues no request.
C25_SwapIsInvisible ==
  [][/\ \A c \in 1..Len(calls) : (Settles(c) /\ calls[c].awaited) =>
          IF ValidationError(calls[c].question) = Null
          THEN /\ Len(responses') = Len(responses) + 1
               /\ error' = Null
          ELSE /\ responses' = responses
               /\ error' # Null /\ error'.type = "validation"
     /\ DEMO_MODE' => requests' = <<>>]_vars

\* C26: Retry is offered exactly when an ErrorState is live and retryable:
\* never with a validation ErrorState, never while ErrorState is empty,
\* which it is after a success and while a request is loading; and a retry
\* only starts from a state that offers it.
C26_RetryOfferedWhenRetryable ==
  /\ [](/\ RetryOffered <=> (error # Null /\ error.retryable)
        /\ (error # Null /\ error.type = "validation") => ~RetryOffered
        /\ isLoading => (error = Null /\ ~RetryOffered))
  /\ [][/\ Len(responses') > Len(responses) => (error' = Null /\ ~RetryOffered')
        /\ lastOp'.op = "retry" => RetryOffered]_vars

\* the service rejected an over-long question: a validation ErrorState is
\* shown without Retry
C26_Witness ==
  /\ error # Null /\ error.type = "validation"
  /\ ~RetryOffered
  /\ ~isLoading
  /\ calls # <<>> /\ calls[Len(calls)].result = "rejected"

\* the flag of an error agrees with its kind
Taxonomy(e) ==
  /\ e.type \in ErrorTypes
  /\ e.type = "validation" => ~e.retryable
  /\ e.type \in {"network", "timeout"} => e.retryable

\* the error was made from a response with a status of 500 or more
FromServerStatus(e) ==
  \E status \in Statuses : status >= 500 /\ e.message = StatusMessage(status)

\* the errors the service holds: thrown by a call or kept as its lastError
ServiceErrors ==
  {calls[c].thrown : c \in 1..Len(calls)} \cup {calls[c].lastError : c \in 1..Len(calls)}

\* C27: in every reachable state each error thrown or kept by the service
\* and the error in ErrorState obeys the taxonomy: validation is not
\* retryable, network and timeout are retryable, and api is retryable only
\* when it was made from a response with status 500 or more.
C27_ErrorTaxonomy ==
  /\ [](/\ \A e \in ServiceErrors \ {Null} :
             /\ Taxonomy(e)
             /\ (e.type = "api" /\ e.retryable) => FromServerStatus(e)
        /\ error # Null =>
             /\ Taxonomy(error)
             /\ (error.type = "api" /\ error.retryable) =>
                  /\ calls # <<>>
                  /\ calls[Len(calls)].thrown # Null
                  /\ FromServerStatus(calls[Len(calls)].thrown))
  /\ [][\A c \in 1..Len(calls) :
          (/\ c <= Len(calls')
           /\ calls'[c].lastError # calls[c].lastError
           /\ calls'[c].lastError # Null
           /\ calls'[c].lastError.type = "api"
           /\ calls'[c].lastError.retryable)
            => (lastOp'.op = "response" /\ lastOp'.outcome >= 500)]_vars

\* three attempts were answered with a status of 500 or more: the
\* ErrorState is api and retryable
C27_Witness ==
  /\ error # Null /\ error.type = "api" /\ error.retryable
  /\ calls # <<>>
  /\ calls[Len(calls)].thrown = StatusError(503)
  /\ calls[Len(calls)].attempt = 3

\* C28: every rejection of the service call the controller awaits, an
\* AIServiceError or any other value, ends in a typed ErrorState with
\* loading false and no record appended: the classified error with its own
\* type and flag, any other value as an api error that is retryable. This
\* holds for a call made by submit and for one made by retry.
C28_EveryRejectionIsCaught ==
  [][\A c \in 1..Len(calls) :
       (Settles(c) /\ calls[c].awaited /\ calls'[c].result = "rejected") =>
         LET err == calls'[c].thrown
         IN /\ ~isLoading'
            /\ responses' = responses
            /\ error' # Null
            /\ error'.type \in ErrorTypes
            /\ error'.retryable \in BOOLEAN
            /\ IF err.type \in ErrorTypes
               THEN /\ error'.type = err.type
                    /\ error'.retryable = err.retryable
               ELSE error' = [type |-> "api",
                              message |-> "An unexpected error occurred. Please try again.",
                              retryable |-> TRUE]]_vars

\* a second call rejected with a plain Error and is shown as an api error
C28_Witness ==
  /\ Len(calls) = 2
  /\ calls[2].result = "rejected" /\ calls[2].thrown = PlainError
  /\ ~isLoading
  /\ error = [type |-> "api",
              message |-> "An unexpected error occurred. Please try again.",
              retryable |-> TRUE]

\* call c waits on a timer whose firing moves it on: the timeout of its
\* current attempt's race, its backoff delay, the simulated delay, or the
\* delivery of a rejection already made
WaitsOnTimer(c) ==
  \/ calls[c].pc \in {"backoff", "rejecting", "demoDelay"}
  \/ /\ calls[c].pc = "race"
     /\ \E r \in 1..Len(requests) :
          /\ requests[r].call = c
          /\ requests[r].attempt = calls[c].attempt
          /\ requests[r].race = "pending"

\* C29: a generateResponse call cannot stay pending forever when timers
\* fire, whatever the network does: at every moment a call that has not
\* settled waits on a timer whose firing moves it on, so neither a request
\* without a response nor a body that never arrives holds it.
C29_PendingCallWaitsOnTimer ==
  \A c \in 1..Len(calls) : calls[c].pc # "done" => WaitsOnTimer(c)

\* C30: the controller goes idle -> submitting -> idle. Loading becomes true
\* only by a submission or a retry; when the service call settles, loading
\* becomes false again; and the step that leaves submitting either appends
\* exactly one record, with no error, or sets an ErrorState and appends
\* nothing, and leaves the input field and the selector enabled and the Ask
\* button enabled once text is typed.
C30_SubmittingReturnsToIdle ==
  /\ isLoading ~> ~isLoading
  /\ [][/\ (~isLoading /\ isLoading') => lastOp'.op \in {"submit", "retry"}
        /\ (isLoading /\ ~isLoading') =>
             /\ \/ /\ Len(responses') = Len(responses) + 1
                   /\ SubSeq(responses', 1, Len(responses)) = responses
                   /\ error' = Null
                \/ /\ responses' = responses
                   /\ error' # Null
             /\ ~InputDisabled' /\ ~SelectDisabled'
             /\ AskDisabled' <=> Trim(inputValue') = <<>>]_vars

\* a submission has ended with one record and the controls enabled
C30_Witness ==
  /\ ~isLoading /\ ~InputDisabled /\ ~SelectDisabled
  /\ Len(calls) = 1 /\ calls[1].awaited /\ calls[1].pc = "done"
  /\ Len(responses) = 1 /\ error = Null

\* C31: when a submitted request fails, the input field still holds the
\* text that was submitted (the question kept for the retry is part of it)
\* and the history of responses is unchanged.
C31_InputPreservedOnFailure ==
  [][\A c \in 1..Len(calls) :
       (Settles(c) /\ calls[c].awaited /\ calls'[c].result = "rejected") =>
         /\ responses' = responses
         /\ inputValue' # <<>>
         /\ Contains(inputValue', lastQuestion'.question)]_vars

C33_BlankInputIsNotSubmitted ==
  /\ [](/\ Trim(inputValue) = <<>> => AskDisabled
        /\ validationError # NoValidationError =>
             /\ validationError = "Please enter a question"
             /\ Trim(inputValue) = <<>>)
  /\ [][/\ Trim(inputValue) = <<>> =>
             /\ lastOp'.op # "submit"
             /\ Len(calls') > Len(calls) => lastOp'.op = "retry"
        /\ (validationError' # NoValidationError /\ validationError = NoValidationError) =>
             /\ Trim(inputValue) = <<>>
             /\ inputValue' = inputValue
             /\ UNCHANGED <<selectedMode, app, calls, requests>>
        /\ inputValue' # inputValue => validationError' = NoValidationError]_vars

\* Enter was pressed over a space: the message is shown, nothing was
\* submitted
C33_Witness ==
  /\ inputValue = <<" ">>
  /\ validationError = "Please enter a question"
  /\ AskDisabled
  /\ calls = <<>> /\ lastQuestion = Null /\ error = Null

\* C34: MockAIService.generateResponse rejects exactly the questions
\* KiroAIService.generateResponse rejects, with the same validation error,
\* which is not retryable; the rejection is made in the call itself, before
\* the simulated delay and any simulated error, and callCount counts the
\* rejected call like any other.
C34_MockValidatesLikeService ==
  [][/\ lastOp'.op = "call" =>
          LET q == lastOp'.question
              c == Len(calls')
          IN /\ callCount' = callCount + 1
             /\ callCount' = Len(calls')
             /\ (ValidationError(q) # Null) <=> (calls'[c].pc = "rejecting")
             /\ ValidationError(q) # Null =>
                  /\ calls'[c].thrown = ValidationError(q)
                  /\ calls'[c].thrown.type = "validation"
                  /\ ~calls'[c].thrown.retryable
             /\ ValidationError(q) = Null =>
                  /\ calls'[c].pc = "mockDelay"
                  /\ calls'[c].thrown = Null
     /\ \A c \in 1..Len(calls) :
          (Settles(c) /\ ValidationError(calls[c].question) # Null) =>
            /\ calls[c].pc = "rejecting"
            /\ calls'[c].result = "rejected"
            /\ calls'[c].thrown = ValidationError(calls[c].question)
            /\ callCount' = callCount]_vars

\* the second call, with a question of 5001 characters, was rejected and
\* counted
C34_Witness ==
  /\ callCount = 2
  /\ Len(calls) = 2 /\ calls[2].service = "mock"
  /\ calls[2].question = <<Block, "q">>
  /\ calls[2].result = "rejected"
  /\ calls[2].thrown =
       AIServiceError("Question is too long (maximum 5000 characters)", "validation", FALSE)

\* C35: in every state of the page, while loading is true the ErrorState is
\* empty, so no error is shown and no Retry is offered while a request is
\* in flight.
C35_NoErrorWhileLoading ==
  isLoading => (error = Null /\ ~RetryOffered)

\* a retry is in flight: the error that offered it is gone
C35_Witness ==
  /\ isLoading /\ error = Null
  /\ lastOp.op = "retry"
  /\ Len(calls) = 2 /\ calls[2].pc # "done"

\* C36: whenever a question is stored for retry its trim is not empty, so a
\* retry with a stored question never ends in the controller's own
\* validation error: it sets loading and calls the service with the stored
\* question and mode.
C36_RetryContextIsNeverBlank ==
  /\ [](lastQuestion # Null => Trim(lastQuestion.question) # <<>>)
  /\ [][(lastOp'.op = "retry" /\ lastQuestion # Null) =>
          /\ isLoading' /\ error' = Null
          /\ lastQuestion' = lastQuestion
          /\ Len(calls') = Len(calls) + 1
          /\ calls'[Len(calls')].question = lastQuestion.question
          /\ calls'[Len(calls')].mode = lastQuestion.mode]_vars

\* a retry has called the service with the stored question
C36_Witness ==
  /\ lastOp.op = "retry"
  /\ lastQuestion # Null /\ Trim(lastQuestion.question) # <<>>
  /\ Len(calls) = 2
  /\ calls[2].question = lastQuestion.question
  /\ calls[2].mode = lastQuestion.mode
  /\ isLoading

\* C37: in no state of the page does a service call, a response record, the
\* question stored for retry, the selected mode or the mode last submitted
\* have the mode generate-quiz.
C37_QuizModeUnreachableFromUI ==
  /\ selectedMode # "generate-quiz"
  /\ lastOp.mode # "generate-quiz"
  /\ lastQuestion # Null => lastQuestion.mode # "generate-quiz"
  /\ \A c \in 1..Len(calls) : calls[c].mode # "generate-quiz"
  /\ \A k \in 1..Len(responses) : responses[k].mode # "generate-quiz"

\* a question submitted with a selected mode was answered in that mode
C37_Witness ==
  /\ selectedMode = "explain-simple"
  /\ Len(responses) = 1 /\ responses[1].mode = "explain-simple"
  /\ lastQuestion = [question |-> <<"q">>, mode |-> "explain-simple"]

\* the requests of call c whose fetch is still pending
PendingRequests(c) == {r \in 1..Len(requests) : requests[r].call = c}

\* C38: at any time at most one request issued by a generateResponse call
\* is still pending: the request of an attempt that has ended is no longer
\* outstanding when the request of the next attempt is issued.
C38_OnePendingRequestPerCall ==
  \A c \in 1..Len(calls) : Cardinality(PendingRequests(c)) <= 1

=============================================================================
